---- MODULE Spec2Model ----
(***************************************************************************)
(* State-machine model of scripts/visualize_dfa.py: the PYDFA dump parser, *)
(* the explicit automaton builder, the reachability fixpoint, the Tarjan   *)
(* SCC decomposition, the weak-automaton check, the edge labels and main's  *)
(* control flow.                                                           *)
(*                                                                         *)
(* Python values are modelled as follows.  A str that the code inspects    *)
(* character by character (a minterm, a trans_func value) is a sequence of *)
(* one-character strings.  A dict is a sequence of [key, ...] records in   *)
(* insertion order (Python dicts iterate in insertion order) or, where     *)
(* only lookup is used, a function.  A set is a set.                       *)
(***************************************************************************)
EXTENDS Integers, Sequences, FiniteSets, TLC

VARIABLES
    pc,            \* position of main(): the stage that runs next
    fmt,           \* "text" | "json": is_json of main
    lines,         \* the text input: a sequence of lines
    jdoc,          \* the JSON input: the decoded document
    all_states,    \* args.all_states
    dot_only,      \* args.dot_only
    dfa,           \* the symbolic automaton returned by the parser
    explicit_dfa,  \* the explicit automaton returned by build_explicit_dfa
    reachable,     \* generate_graphviz: the reachable set
    changed,       \* generate_graphviz: the fixpoint loop's flag
    passes,        \* number of completed passes of the fixpoint loop
    sccs,          \* the list returned by compute_sccs
    is_weak,       \* check_weak_dfa: first component of the result
    problematic,   \* check_weak_dfa: second component of the result
    dot,           \* the graph document built by generate_graphviz
    stderr,        \* diagnostic stream: the sequence of messages written
    stdout,        \* primary output: the sequence of documents written
    image,         \* TRUE when the layout tool produced the PNG
    result,        \* how main ended: "running", "return0", "return1", "raised"
    HAS_SYMPY,     \* the module-level flag set by the import of sympy
    label_call,    \* the arguments of a call of minimize_label
    label          \* the value that call returned

vars == <<pc, fmt, lines, jdoc, all_states, dot_only, dfa, explicit_dfa,
          reachable, changed, passes, sccs, is_weak, problematic, dot,
          stderr, stdout, image, result, HAS_SYMPY, label_call, label>>

label_vars == <<label_call, label>>

(***************************************************************************)
(* Generic helpers.                                                        *)
(***************************************************************************)
RECURSIVE Pow2(_)
Pow2(n) == IF n <= 0 THEN 1 ELSE 2 * Pow2(n - 1)

\* bit i of the non-negative integer n: (n >> i) & 1
BitOf(n, i) == (n \div Pow2(i)) % 2

\* range(n)
Range(n) == 0 .. (n - 1)

\* sorted(S) for a finite set of integers
RECURSIVE Sorted(_)
Sorted(S) ==
    IF S = {} THEN <<>>
    ELSE LET m == CHOOSE x \in S : \A y \in S : x <= y
         IN <<m>> \o Sorted(S \ {m})

SeqToSet(s) == {s[k] : k \in 1 .. Len(s)}

(***************************************************************************)
(* minterm_to_int: binary string, LSB first.                               *)
(***************************************************************************)
RECURSIVE minterm_bits(_, _)
minterm_bits(minterm, i) ==
    IF i > Len(minterm) THEN 0
    ELSE (IF minterm[i] = "1" THEN Pow2(i - 1) ELSE 0) + minterm_bits(minterm, i + 1)

minterm_to_int(minterm) == minterm_bits(minterm, 1)

(***************************************************************************)
(* build_explicit_dfa.                                                     *)
(***************************************************************************)
\* trans_lookup: for each bit of dfa['trans_funcs'], set(minterms)
trans_lookup(d) == [bit \in DOMAIN d.trans_funcs |-> SeqToSet(d.trans_funcs[bit])]

\* next_state of (state, inp, out): the loop over range(num_state_bits)
RECURSIVE next_state_from(_, _, _, _)
\* next_state_from where a bit missing from trans_lookup counts as set
next_state_from_missing_set(lookup, nbits, triple, bit) ==
    IF bit >= nbits THEN 0
    ELSE (IF bit \notin DOMAIN lookup \/ triple \in lookup[bit] THEN Pow2(bit) ELSE 0)
         + next_state_from(lookup, nbits, triple, bit + 1)

next_state_from(lookup, nbits, triple, bit) ==
    IF bit >= nbits THEN 0
    ELSE (IF bit \in DOMAIN lookup /\ triple \in lookup[bit] THEN Pow2(bit) ELSE 0)
         + next_state_from(lookup, nbits, triple, bit + 1)

\* the loop run over range(num_state_bits + 1)
next_state_one_bit_more(lookup, nbits, triple) ==
    next_state_from(lookup, nbits + 1, triple, 0)

next_state(lookup, nbits, triple) == next_state_from(lookup, nbits, triple, 0)

\* The triples in the order of the three nested loops: state, inp, out.
loop_order(ns, ni, no) ==
    [k \in 1 .. (ns * ni * no) |->
        <<(k - 1) \div (ni * no), ((k - 1) \div no) % ni, (k - 1) % no>>]

\* trans_by_edge[(state, next_state)].append((inp, out)) on a defaultdict(list)
\* the list of the first key with the same source state
edge_index_by_source(edges, key) ==
    IF \E k \in 1 .. Len(edges) : edges[k].key[1] = key[1]
    THEN CHOOSE k \in 1 .. Len(edges) : edges[k].key[1] = key[1]
    ELSE 0

edge_index(edges, key) ==
    IF \E k \in 1 .. Len(edges) : edges[k].key = key
    THEN CHOOSE k \in 1 .. Len(edges) : edges[k].key = key
    ELSE 0

\* a list started for every pair, whether or not the key is present
append_pair_ungrouped(edges, key, pair) ==
    Append(edges, [key |-> key, pairs |-> <<pair>>])

append_pair(edges, key, pair) ==
    LET k == edge_index(edges, key)
    IN IF k = 0
       THEN Append(edges, [key |-> key, pairs |-> <<pair>>])
       ELSE [edges EXCEPT ![k].pairs = Append(@, pair)]

RECURSIVE build_edges(_, _, _, _)
build_edges(order, transitions, k, edges) ==
    IF k > Len(order) THEN edges
    ELSE LET t == order[k]
         IN build_edges(order, transitions, k + 1,
                        append_pair(edges, <<t[1], transitions[t]>>, <<t[2], t[3]>>))

build_explicit_dfa(d) ==
    LET num_states == Pow2(d.num_state_bits)
        order      == loop_order(num_states, Pow2(d.num_inputs), Pow2(d.num_outputs))
        lookup     == trans_lookup(d)
        transitions ==
            [t \in SeqToSet(order) |-> next_state(lookup, d.num_state_bits, t)]
    IN [num_states       |-> num_states,
        num_state_bits   |-> d.num_state_bits,
        num_inputs       |-> d.num_inputs,
        num_outputs      |-> d.num_outputs,
        initial_state    |-> IF d.initial_minterm # <<>>
                             THEN minterm_to_int(d.initial_minterm) ELSE 0,
        accepting_states |-> {minterm_to_int(d.accepting_minterms[k]) :
                                k \in {j \in 1 .. Len(d.accepting_minterms) :
                                         d.accepting_minterms[j] # <<>>}},
        transitions      |-> transitions,
        trans_by_edge    |-> build_edges(order, transitions, 1, <<>>),
        input_labels     |-> d.input_labels,
        output_labels    |-> d.output_labels]

(***************************************************************************)
(* generate_graphviz: one pass of the reachability fixpoint loop, i.e. the *)
(* body of "while changed": changed = False, then the for loop over        *)
(* trans_by_edge.items() in dict order.                                    *)
(***************************************************************************)
RECURSIVE reach_loop(_, _, _)
\* reach_loop without the "src in reachable" test
reach_loop_any_source(edges, k, st) ==
    IF k > Len(edges) THEN st
    ELSE LET dst == edges[k].key[2]
         IN IF dst \notin st.reachable
            THEN reach_loop(edges, k + 1,
                            [reachable |-> st.reachable \cup {dst}, changed |-> TRUE])
            ELSE reach_loop(edges, k + 1, st)

reach_loop(edges, k, st) ==
    IF k > Len(edges) THEN st
    ELSE LET src == edges[k].key[1]
             dst == edges[k].key[2]
         IN IF src \in st.reachable /\ dst \notin st.reachable
            THEN reach_loop(edges, k + 1,
                            [reachable |-> st.reachable \cup {dst}, changed |-> TRUE])
            ELSE reach_loop(edges, k + 1, st)

\* reach_pass that never sets changed: the loop stops after its first pass
reach_pass_single(e, R) ==
    [reachable |-> reach_loop(e.trans_by_edge, 1, [reachable |-> R, changed |-> FALSE]).reachable,
     changed |-> FALSE]

reach_pass(e, R) == reach_loop(e.trans_by_edge, 1, [reachable |-> R, changed |-> FALSE])

(***************************************************************************)
(* compute_sccs: Tarjan's algorithm.  The code iterates over two Python    *)
(* sets (reachable, graph[v]); the iteration order of a set is not fixed   *)
(* by the language, so it is a parameter o: a sequence of states giving    *)
(* the order in which the members of any set are visited.                  *)
(***************************************************************************)
set_iter(S, o) ==
    SelectSeq(o, LAMBDA x : x \in S) \o Sorted(S \ SeqToSet(o))

Min(a, b) == IF a <= b THEN a ELSE b

\* graph = defaultdict(set); graph[src].add(dst) for edges inside reachable
scc_graph(e, R) ==
    LET keys == {e.trans_by_edge[k].key : k \in 1 .. Len(e.trans_by_edge)}
        inner == {key \in keys : key[1] \in R /\ key[2] \in R}
    IN [src \in {key[1] : key \in inner} |-> {key[2] : key \in {x \in inner : x[1] = src}}]

\* the while True loop that pops the stack down to v
\* one pop instead of the loop down to v
pop_scc_top_only(v, st, scc) ==
    LET w == st.stack[Len(st.stack)]
    IN [st EXCEPT !.stack = SubSeq(@, 1, Len(@) - 1),
                  !.on_stack = (w :> FALSE) @@ @,
                  !.sccs = Append(@, {w})]

RECURSIVE pop_scc(_, _, _)
pop_scc(v, st, scc) ==
    LET w    == st.stack[Len(st.stack)]
        st1  == [st EXCEPT !.stack = SubSeq(@, 1, Len(@) - 1),
                           !.on_stack = (w :> FALSE) @@ @]
        scc1 == scc \cup {w}
    IN IF w = v THEN [st1 EXCEPT !.sccs = Append(@, scc1)]
       ELSE pop_scc(v, st1, scc1)

RECURSIVE strongconnect(_, _, _, _), visit_successors(_, _, _, _, _, _)
strongconnect(v, st, graph, o) ==
    LET st1 == [st EXCEPT !.index = (v :> st.index_counter) @@ @,
                          !.lowlinks = (v :> st.index_counter) @@ @,
                          !.index_counter = @ + 1,
                          !.stack = Append(@, v),
                          !.on_stack = (v :> TRUE) @@ @]
        succ == IF v \in DOMAIN graph THEN set_iter(graph[v], o) ELSE <<>>
        st2 == visit_successors(v, succ, 1, st1, graph, o)
    IN IF st2.lowlinks[v] = st2.index[v] THEN pop_scc(v, st2, {}) ELSE st2

\* visit_successors without the on_stack test: the low-link is lowered by
\* every visited successor, also one whose SCC is already complete
visit_successors_any_visited(v, succ, k, st, graph, o) ==
    IF k > Len(succ) THEN st
    ELSE LET w == succ[k]
         IN IF w \notin DOMAIN st.index
            THEN LET s1 == strongconnect(w, st, graph, o)
                     s2 == [s1 EXCEPT !.lowlinks =
                               (v :> Min(s1.lowlinks[v], s1.lowlinks[w])) @@ @]
                 IN visit_successors(v, succ, k + 1, s2, graph, o)
            ELSE visit_successors(v, succ, k + 1,
                     [st EXCEPT !.lowlinks =
                         (v :> Min(st.lowlinks[v], st.index[w])) @@ @],
                     graph, o)

visit_successors(v, succ, k, st, graph, o) ==
    IF k > Len(succ) THEN st
    ELSE LET w == succ[k]
         IN IF w \notin DOMAIN st.index
            THEN LET s1 == strongconnect(w, st, graph, o)
                     s2 == [s1 EXCEPT !.lowlinks =
                               (v :> Min(s1.lowlinks[v], s1.lowlinks[w])) @@ @]
                 IN visit_successors(v, succ, k + 1, s2, graph, o)
            ELSE IF w \in DOMAIN st.on_stack /\ st.on_stack[w]
            THEN visit_successors(v, succ, k + 1,
                     [st EXCEPT !.lowlinks =
                         (v :> Min(st.lowlinks[v], st.index[w])) @@ @],
                     graph, o)
            ELSE visit_successors(v, succ, k + 1, st, graph, o)

RECURSIVE scc_roots(_, _, _, _, _)
scc_roots(vs, k, st, graph, o) ==
    IF k > Len(vs) THEN st
    ELSE IF vs[k] \notin DOMAIN st.index
         THEN scc_roots(vs, k + 1, strongconnect(vs[k], st, graph, o), graph, o)
         ELSE scc_roots(vs, k + 1, st, graph, o)

compute_sccs(e, R, o) ==
    LET st0 == [index_counter |-> 0, stack |-> <<>>, lowlinks |-> <<>>,
                index |-> <<>>, on_stack |-> <<>>, sccs |-> <<>>]
    IN scc_roots(set_iter(R, o), 1, st0, scc_graph(e, R), o).sccs

(***************************************************************************)
(* check_weak_dfa: returns (is_weak, problematic).                         *)
(***************************************************************************)
RECURSIVE weak_loop(_, _, _, _)
\* weak_loop with the size test off by one: "if len(scc) <= 2: continue"
\* the two subsets recorded under each other's key
mixed_scc_record_swapped(scc, accepting_in_scc, rejecting_in_scc) ==
    [scc |-> scc, accepting |-> rejecting_in_scc, rejecting |-> accepting_in_scc]

\* {'scc': scc, 'accepting': accepting_in_scc, 'rejecting': rejecting_in_scc}
mixed_scc_record(scc, accepting_in_scc, rejecting_in_scc) ==
    [scc |-> scc, accepting |-> accepting_in_scc, rejecting |-> rejecting_in_scc]

weak_loop_skips_pairs(accepting, sccList, k, prob) ==
    IF k > Len(sccList) THEN prob
    ELSE LET scc == sccList[k]
         IN IF Cardinality(scc) > 2 /\ scc \cap accepting # {} /\ scc \ accepting # {}
            THEN weak_loop(accepting, sccList, k + 1,
                           Append(prob, [scc |-> scc,
                                         accepting |-> scc \cap accepting,
                                         rejecting |-> scc \ accepting]))
            ELSE weak_loop(accepting, sccList, k + 1, prob)

weak_loop(accepting, sccList, k, prob) ==
    IF k > Len(sccList) THEN prob
    ELSE LET scc == sccList[k]
             accepting_in_scc == scc \cap accepting
             rejecting_in_scc == scc \ accepting
         IN IF Cardinality(scc) <= 1
            THEN weak_loop(accepting, sccList, k + 1, prob)
            ELSE IF accepting_in_scc # {} /\ rejecting_in_scc # {}
            THEN weak_loop(accepting, sccList, k + 1,
                           Append(prob, mixed_scc_record(scc, accepting_in_scc,
                                                         rejecting_in_scc)))
            ELSE weak_loop(accepting, sccList, k + 1, prob)

check_weak_dfa(e, sccList) ==
    LET prob == weak_loop(e.accepting_states, sccList, 1, <<>>)
    IN [is_weak |-> Len(prob) = 0, problematic |-> prob]

(***************************************************************************)
(* Text of the dump.  A stripped line is a record                          *)
(*   [key, arg, eq, val]                                                   *)
(* standing for the text  key arg  when eq is FALSE and  key arg = val     *)
(* when eq is TRUE ('=' in line; key, val = line.split('=', 1)).  key is   *)
(* the fixed part of the key, arg the characters after "trans_func_", val  *)
(* the characters after the first '='.                                     *)
(***************************************************************************)
BEGIN_LINE == [key |-> "===PYDFA_BEGIN===", arg |-> <<>>, eq |-> FALSE, val |-> <<>>]
END_LINE   == [key |-> "===PYDFA_END===", arg |-> <<>>, eq |-> FALSE, val |-> <<>>]

Digits == {"0", "1", "2", "3", "4", "5", "6", "7", "8", "9"}

DigitVal(c) ==
    CASE c = "0" -> 0 [] c = "1" -> 1 [] c = "2" -> 2 [] c = "3" -> 3 [] c = "4" -> 4
      [] c = "5" -> 5 [] c = "6" -> 6 [] c = "7" -> 7 [] c = "8" -> 8 [] c = "9" -> 9

\* str.strip() for the blank character
RECURSIVE Strip(_)
Strip(s) ==
    IF s = <<>> THEN s
    ELSE IF s[1] = " " THEN Strip(Tail(s))
    ELSE IF s[Len(s)] = " " THEN Strip(SubSeq(s, 1, Len(s) - 1))
    ELSE s

\* int(s) of a str: blanks stripped, an optional sign, then decimal digits;
\* anything else raises ValueError.
IntBody(s) == LET t == Strip(s)
              IN IF t # <<>> /\ t[1] \in {"-", "+"} THEN Tail(t) ELSE t

int_ok(s) == LET b == IntBody(s)
             IN b # <<>> /\ \A k \in 1 .. Len(b) : b[k] \in Digits

RECURSIVE DecimalValue(_, _)
DecimalValue(b, acc) ==
    IF b = <<>> THEN acc ELSE DecimalValue(Tail(b), 10 * acc + DigitVal(b[1]))

int_of(s) == LET t == Strip(s)
                 v == DecimalValue(IntBody(s), 0)
             IN IF t[1] = "-" THEN 0 - v ELSE v

\* str.split(sep): the pieces between the occurrences of sep
RECURSIVE SplitFrom(_, _, _, _)
SplitFrom(s, sep, k, cur) ==
    IF k > Len(s) THEN <<cur>>
    ELSE IF s[k] = sep THEN <<cur>> \o SplitFrom(s, sep, k + 1, <<>>)
    ELSE SplitFrom(s, sep, k + 1, Append(cur, s[k]))

Split(s, sep) == SplitFrom(s, sep, 1, <<>>)

(***************************************************************************)
(* parse_dfa_dump.  The result is [raised, dfa]: raised is "" when the     *)
(* function returns dfa, and the exception's name when it raises.          *)
(***************************************************************************)
EmptyDfa ==
    [num_state_bits |-> 0, num_inputs |-> 0, num_outputs |-> 0,
     state_var_indices |-> <<>>, input_labels |-> <<>>, output_labels |-> <<>>,
     trans_funcs |-> <<>>, accepting_minterms |-> <<>>, initial_minterm |-> <<>>]

\* the for loop over val.split(';') of a trans_func line:
\* [raised, minterms]
RECURSIVE parse_entries(_, _, _)
parse_entries(entries, k, minterms) ==
    IF k > Len(entries) THEN [raised |-> "", minterms |-> minterms]
    ELSE LET parts == Split(entries[k], ",")
         IN IF Len(parts) = 3
            THEN IF int_ok(parts[1]) /\ int_ok(parts[2]) /\ int_ok(parts[3])
                 THEN parse_entries(entries, k + 1,
                          Append(minterms,
                                 <<int_of(parts[1]), int_of(parts[2]), int_of(parts[3])>>))
                 ELSE [raised |-> "ValueError", minterms |-> minterms]
            ELSE parse_entries(entries, k + 1, minterms)

\* [int(x) for x in val.split(',')]
int_list(val) ==
    LET xs == Split(val, ",")
    IN IF \A k \in 1 .. Len(xs) : int_ok(xs[k])
       THEN [raised |-> "", list |-> [k \in 1 .. Len(xs) |-> int_of(xs[k])]]
       ELSE [raised |-> "ValueError", list |-> <<>>]

\* the body of "for line in lines" for one key=value line inside the block
parse_field(d, line) ==
    LET key == line.key
        val == line.val
    IN CASE key = "num_state_bits" ->
              IF int_ok(val) THEN [raised |-> "", dfa |-> [d EXCEPT !.num_state_bits = int_of(val)]]
              ELSE [raised |-> "ValueError", dfa |-> d]
         [] key = "num_inputs" ->
              IF int_ok(val) THEN [raised |-> "", dfa |-> [d EXCEPT !.num_inputs = int_of(val)]]
              ELSE [raised |-> "ValueError", dfa |-> d]
         [] key = "num_outputs" ->
              IF int_ok(val) THEN [raised |-> "", dfa |-> [d EXCEPT !.num_outputs = int_of(val)]]
              ELSE [raised |-> "ValueError", dfa |-> d]
         [] key = "state_var_indices" ->
              IF val = <<>> THEN [raised |-> "", dfa |-> d]
              ELSE LET r == int_list(val)
                   IN [raised |-> r.raised,
                       dfa |-> IF r.raised = "" THEN [d EXCEPT !.state_var_indices = r.list]
                               ELSE d]
         [] key = "input_labels" ->
              [raised |-> "",
               dfa |-> IF val = <<>> THEN d ELSE [d EXCEPT !.input_labels = Split(val, ",")]]
         [] key = "output_labels" ->
              [raised |-> "",
               dfa |-> IF val = <<>> THEN d ELSE [d EXCEPT !.output_labels = Split(val, ",")]]
         [] key = "trans_func_" ->
              \* bit = int(key.split('_')[2])
              LET bitstr == Split(line.arg, "_")[1]
              IN IF ~int_ok(bitstr) THEN [raised |-> "ValueError", dfa |-> d]
                 ELSE LET bit == int_of(bitstr)
                      IN IF val = <<>>
                         THEN [raised |-> "",
                               dfa |-> [d EXCEPT !.trans_funcs = (bit :> <<>>) @@ @]]
                         ELSE LET r == parse_entries(Split(val, ";"), 1, <<>>)
                              IN [raised |-> r.raised,
                                  dfa |-> IF r.raised = ""
                                          THEN [d EXCEPT !.trans_funcs =
                                                   (bit :> r.minterms) @@ @]
                                          ELSE d]
         [] key = "accepting_minterms" ->
              [raised |-> "",
               dfa |-> IF val = <<>> THEN d
                       ELSE [d EXCEPT !.accepting_minterms = Split(val, ";")]]
         [] key = "initial_minterm" ->
              [raised |-> "", dfa |-> [d EXCEPT !.initial_minterm = val]]
         [] OTHER -> [raised |-> "", dfa |-> d]

\* a pass that ends at the first line of the block without '='
RECURSIVE parse_lines_stops_at_junk(_, _, _, _)
parse_lines_stops_at_junk(ls, k, in_dump, d) ==
    IF k > Len(ls) THEN [raised |-> "", dfa |-> d]
    ELSE LET line == ls[k]
         IN IF line = BEGIN_LINE THEN parse_lines_stops_at_junk(ls, k + 1, TRUE, d)
            ELSE IF line = END_LINE THEN parse_lines_stops_at_junk(ls, k + 1, FALSE, d)
            ELSE IF ~in_dump THEN parse_lines_stops_at_junk(ls, k + 1, in_dump, d)
            ELSE IF ~line.eq THEN [raised |-> "", dfa |-> d]
            ELSE LET r == parse_field(d, line)
                 IN IF r.raised # "" THEN r
                    ELSE parse_lines_stops_at_junk(ls, k + 1, in_dump, r.dfa)

RECURSIVE parse_lines(_, _, _, _)
parse_lines(ls, k, in_dump, d) ==
    IF k > Len(ls) THEN [raised |-> "", dfa |-> d]
    ELSE LET line == ls[k]
         IN IF line = BEGIN_LINE THEN parse_lines(ls, k + 1, TRUE, d)
            ELSE IF line = END_LINE THEN parse_lines(ls, k + 1, FALSE, d)
            ELSE IF ~in_dump THEN parse_lines(ls, k + 1, in_dump, d)
            ELSE IF ~line.eq THEN parse_lines(ls, k + 1, in_dump, d)
            ELSE LET r == parse_field(d, line)
                 IN IF r.raised # "" THEN r
                    ELSE parse_lines(ls, k + 1, in_dump, r.dfa)

parse_dfa_dump(ls) == parse_lines(ls, 1, FALSE, EmptyDfa)

(***************************************************************************)
(* parse_json_dfa.  The decoded document is [valid, data]: valid is FALSE  *)
(* when json.loads raises JSONDecodeError; data is the dict, a function    *)
(* from the keys present to their values.  data["trans_funcs"] is the      *)
(* dict's items in order: a sequence of [bit_str, minterms].               *)
(***************************************************************************)
MandatoryKeys == {"num_state_bits", "num_inputs", "num_outputs"}

json_get(data, key, default) == IF key \in DOMAIN data THEN data[key] ELSE default

RECURSIVE json_trans_funcs(_, _, _)
json_trans_funcs(items, k, tf) ==
    IF k > Len(items) THEN [raised |-> "", trans_funcs |-> tf]
    ELSE IF ~int_ok(items[k].bit_str) THEN [raised |-> "ValueError", trans_funcs |-> tf]
    ELSE json_trans_funcs(items, k + 1,
                          (int_of(items[k].bit_str) :> items[k].minterms) @@ tf)

parse_json_dfa(j) ==
    IF ~j.valid THEN [raised |-> "JSONDecodeError", dfa |-> EmptyDfa]
    ELSE IF ~(MandatoryKeys \subseteq DOMAIN j.data)
    THEN [raised |-> "KeyError", dfa |-> EmptyDfa]
    ELSE LET r == json_trans_funcs(json_get(j.data, "trans_funcs", <<>>), 1, <<>>)
         IN [raised |-> r.raised,
             dfa |-> [num_state_bits |-> j.data["num_state_bits"],
                      num_inputs |-> j.data["num_inputs"],
                      num_outputs |-> j.data["num_outputs"],
                      state_var_indices |-> json_get(j.data, "state_var_indices", <<>>),
                      input_labels |-> json_get(j.data, "input_labels", <<>>),
                      output_labels |-> json_get(j.data, "output_labels", <<>>),
                      trans_funcs |-> r.trans_funcs,
                      accepting_minterms |-> json_get(j.data, "accepting_minterms", <<>>),
                      initial_minterm |-> json_get(j.data, "initial_minterm", <<>>)]]

(***************************************************************************)
(* minimize_label.  The returned str is modelled by its structure:         *)
(*   [kind |-> "true"]                       the literal 'true'            *)
(*   [kind |-> "term", parts, elided]        ' & '.join(parts), wrapped    *)
(*                                           as "(...) | ..." when elided  *)
(*   [kind |-> "sop", terms]                 str(SOPform(...)): a set of   *)
(*                                           product terms                 *)
(*   [kind |-> "conditions", n]              f'{len(io_pairs)} conditions' *)
(* A literal is [name, neg]: the label, or the label preceded by '!'.      *)
(***************************************************************************)
\* [f'i{i}' for i in range(n)]
synth_labels(prefix, n) == [k \in 1 .. n |-> prefix \o ToString(k - 1)]

\* list(input_labels) if input_labels else [f'i{i}' for i in range(num_inputs)]
labels_or_synth(labels, prefix, n) ==
    IF labels # <<>> THEN labels ELSE synth_labels(prefix, n)

\* in_labels[i] if i < len(in_labels) else f'i{i}'
label_at(labels, i, prefix) ==
    IF i < Len(labels) THEN labels[i + 1] ELSE prefix \o ToString(i)

\* the two branches of the test of bit i exchanged
literal_flipped(name, v, i) == [name |-> name, neg |-> BitOf(v, i) = 1]

\* parts.append(label) if (v >> i) & 1 else parts.append(f'!{label}')
literal(name, v, i) == [name |-> name, neg |-> BitOf(v, i) = 0]

\* the parts of the first pair: the inputs' literals, then the outputs'
first_pair_parts(pair, num_inputs, num_outputs, in_labels, out_labels) ==
    [k \in 1 .. num_inputs |-> literal(label_at(in_labels, k - 1, "i"), pair[1], k - 1)]
    \o [k \in 1 .. num_outputs |-> literal(label_at(out_labels, k - 1, "o"), pair[2], k - 1)]

\* if len(io_pairs) > 1: return f"({' & '.join(parts)}) | ..."
elided(io_pairs) == Len(io_pairs) > 1

fallback_label(io_pairs, num_inputs, num_outputs, in_labels, out_labels) ==
    IF io_pairs # <<>>
    THEN [kind |-> "term",
          parts |-> first_pair_parts(io_pairs[1], num_inputs, num_outputs,
                                     in_labels, out_labels),
          elided |-> elided(io_pairs)]
    ELSE [kind |-> "true"]

\* bit i of io_val = inp | (out << num_inputs)
io_val_bit_shift_outputs(pair, num_inputs, num_outputs, i) ==
    IF BitOf(pair[1], i) = 1 \/ (i >= num_outputs /\ BitOf(pair[2], i - num_outputs) = 1)
    THEN 1 ELSE 0

io_val_bit(pair, num_inputs, num_outputs, i) ==
    IF BitOf(pair[1], i) = 1 \/ (i >= num_inputs /\ BitOf(pair[2], i - num_inputs) = 1)
    THEN 1 ELSE 0

\* tuple((io_val >> i) & 1 for i in range(num_io))
sop_minterm(pair, num_inputs, num_outputs) ==
    [k \in 1 .. (num_inputs + num_outputs) |->
        io_val_bit(pair, num_inputs, num_outputs, k - 1)]

\* sympy's SOPform(syms, minterms), by the Quine-McCluskey procedure: the
\* minterms are merged pairwise into implicants (2 stands for an eliminated
\* variable) until nothing merges; the result is the sum of the prime
\* implicants, each written over syms.
differ_at(a, b) == {k \in 1 .. Len(a) : a[k] # b[k]}

mergeable(a, b) ==
    /\ Cardinality(differ_at(a, b)) = 1
    /\ \A k \in differ_at(a, b) : a[k] # 2 /\ b[k] # 2

merge(a, b) == [k \in 1 .. Len(a) |-> IF a[k] = b[k] THEN a[k] ELSE 2]

RECURSIVE prime_implicants(_)
prime_implicants(S) ==
    LET merged == {merge(x[1], x[2]) : x \in {y \in S \X S : mergeable(y[1], y[2])}}
        primes == {a \in S : \A b \in S : ~mergeable(a, b)}
    IN IF merged = {} THEN S ELSE primes \cup prime_implicants(merged)

product_term(implicant, syms) ==
    {[name |-> syms[k], neg |-> implicant[k] = 0] :
        k \in {j \in 1 .. Len(implicant) : implicant[j] # 2}}

SOPform(syms, minterms) ==
    {product_term(p, syms) : p \in prime_implicants(SeqToSet(minterms))}

\* the test of line 192 passing one pair short of the whole space
covers_all_but_one(io_pairs, all_io) == Len(io_pairs) >= all_io - 1

\* if len(io_pairs) == all_io
covers_all(io_pairs, all_io) == Len(io_pairs) = all_io

minimize_label(io_pairs, num_inputs, num_outputs, input_labels, output_labels, has_sympy) ==
    LET num_io == num_inputs + num_outputs
        all_io == Pow2(num_io)
        in_labels == labels_or_synth(input_labels, "i", num_inputs)
        out_labels == labels_or_synth(output_labels, "o", num_outputs)
        all_labels == in_labels \o out_labels
        syms == SubSeq(all_labels, 1, IF num_io < Len(all_labels) THEN num_io ELSE Len(all_labels))
        minterms == [k \in 1 .. Len(io_pairs) |->
                        sop_minterm(io_pairs[k], num_inputs, num_outputs)]
    IN IF covers_all(io_pairs, all_io) THEN [kind |-> "true"]
       ELSE IF ~has_sympy
       THEN fallback_label(io_pairs, num_inputs, num_outputs, in_labels, out_labels)
       ELSE IF Len(syms) # num_io
       THEN [kind |-> "conditions", n |-> Len(io_pairs)]
       ELSE [kind |-> "sop", terms |-> SOPform(syms, minterms)]

(***************************************************************************)
(* generate_graphviz: the graph document.  The returned text is modelled   *)
(* by its content: the target of the __start edge, the node statements in  *)
(* order and the edge statements in order.                                 *)
(***************************************************************************)
scc_colors ==
    <<"#FFB3BA", "#BAFFC9", "#BAE1FF", "#FFFFBA", "#FFDFba",
      "#E0BBE4", "#957DAD", "#D4A5A5", "#A8E6CF", "#DCEDC1">>

\* state_to_scc_color after the loop over enumerate(sccs): the colour of the
\* last SCC (in list order) that contains s; .get(s, 'white')
\* a palette cycled after half of its entries
palette_color_half_cycle(i) == scc_colors[(i % 5) + 1]

\* color = scc_colors[i % len(scc_colors)], i counted from 0
palette_color(i) == scc_colors[(i % Len(scc_colors)) + 1]

RECURSIVE fill_of(_, _, _)
fill_of(sccList, s, k) ==
    IF k = 0 THEN "white"
    ELSE IF s \in sccList[k] THEN palette_color(k - 1)
    ELSE fill_of(sccList, s, k - 1)

fill_color(sccList, s) == fill_of(sccList, s, Len(sccList))

node_stmt(e, sccList, s) ==
    [id    |-> s,
     shape |-> IF s \in e.accepting_states THEN "doublecircle" ELSE "circle",
     color |-> IF s \in e.accepting_states THEN "green" ELSE "black",
     fillcolor |-> fill_color(sccList, s)]

\* for s in range(num_states): if s not in reachable: continue
node_stmts(e, R, sccList) ==
    LET ids == Sorted(Range(e.num_states) \cap R)
    IN [k \in 1 .. Len(ids) |-> node_stmt(e, sccList, ids[k])]

\* the test made on the target of the edge
edge_kept_by_target(key, R) == key[2] \in R

\* if src not in reachable: continue
edge_kept(key, R) == key[1] \in R

\* for (src, dst), io_pairs in trans_by_edge.items()
edge_stmts(e, R, has_sympy) ==
    LET kept == SelectSeq(e.trans_by_edge, LAMBDA x : edge_kept(x.key, R))
    IN [k \in 1 .. Len(kept) |->
          [src |-> kept[k].key[1], dst |-> kept[k].key[2],
           label |-> minimize_label(kept[k].pairs, e.num_inputs, e.num_outputs,
                                    e.input_labels, e.output_labels, has_sympy)]]

graph_document(e, R, sccList, has_sympy) ==
    [start |-> e.initial_state,
     nodes |-> node_stmts(e, R, sccList),
     edges |-> edge_stmts(e, R, has_sympy)]

\* nothing written for a mixed SCC
not_weak_report_silent(prob) == <<>>

\* the lines written to stderr when the automaton is not weak
not_weak_report(prob) ==
    <<[msg |-> "WARNING: DFA IS NOT WEAK!", data |-> <<>>]>>
    \o [k \in 1 .. Len(prob) |->
          [msg |-> "Mixed SCC",
           data |-> <<Sorted(prob[k].scc), Sorted(prob[k].accepting),
                      Sorted(prob[k].rejecting)>>]]

(***************************************************************************)
(* Values that stand for "not computed yet".                               *)
(***************************************************************************)
NoExplicit ==
    [num_states |-> 0, num_state_bits |-> 0, num_inputs |-> 0, num_outputs |-> 0,
     initial_state |-> 0, accepting_states |-> {}, transitions |-> <<>>,
     trans_by_edge |-> <<>>, input_labels |-> <<>>, output_labels |-> <<>>]

NoDocument == [start |-> 0, nodes |-> <<>>, edges |-> <<>>]

NoJson == [valid |-> FALSE, data |-> <<>>]

NoCall == [io_pairs |-> <<>>, num_inputs |-> 0, num_outputs |-> 0,
           input_labels |-> <<>>, output_labels |-> <<>>]

NoLabel == [kind |-> "none"]

Say(msg) == [msg |-> msg, data |-> <<>>]

(***************************************************************************)
(* Bounds of the model and the inputs drawn within them.                   *)
(***************************************************************************)
MaxMinterms == 2        \* triples listed in a dump, over all trans_func lines
MaxAccepting == 2       \* entries of accepting_minterms
MaxLines == 4           \* lines of a text input
MaxPermSize == 3        \* sets up to this size are iterated in every order

\* (num_state_bits, num_inputs, num_outputs) of the dumps explored
Widths == {<<2, 1, 0>>, <<2, 0, 0>>, <<1, 1, 0>>, <<1, 0, 1>>, <<0, 0, 0>>}
BuildWidths == {<<1, 1, 0>>, <<2, 0, 0>>, <<1, 0, 1>>, <<0, 0, 0>>}

RECURSIVE SubsetsUpTo(_, _)
SubsetsUpTo(S, k) ==
    IF k = 0 THEN {{}}
    ELSE LET P == SubsetsUpTo(S, k - 1)
         IN P \cup {p \cup {x} : p \in P, x \in S}

RECURSIVE SetToSeq(_)
SetToSeq(S) ==
    IF S = {} THEN <<>>
    ELSE LET x == CHOOSE y \in S : TRUE IN <<x>> \o SetToSeq(S \ {x})

Bitstrings(n) == [1 .. n -> {"0", "1"}]

\* a dump's trans_funcs from a set E of <<bit, triple>> entries, with a
\* (possibly empty) list for every bit of listed
trans_funcs_of(E, listed) ==
    [bit \in listed \cup {x[1] : x \in E} |->
        SetToSeq({x[2] : x \in {y \in E : y[1] = bit}})]

dump_of(w, tf, acc, init) ==
    [num_state_bits |-> w[1], num_inputs |-> w[2], num_outputs |-> w[3],
     state_var_indices |-> <<>>, input_labels |-> <<>>, output_labels |-> <<>>,
     trans_funcs |-> tf, accepting_minterms |-> acc, initial_minterm |-> init]

\* well-formed dumps: every bit listed, every triple inside the declared widths
InRangeEntries(w) ==
    Range(w[1]) \X (Range(Pow2(w[1])) \X Range(Pow2(w[2])) \X Range(Pow2(w[3])))

GraphDumps(ws) ==
    UNION {
      {dump_of(w, trans_funcs_of(E, Range(w[1])), SetToSeq(A), init) :
          E \in SubsetsUpTo(InRangeEntries(w), MaxMinterms),
          A \in SubsetsUpTo(Bitstrings(w[1]), MaxAccepting),
          init \in Bitstrings(w[1])} : w \in ws}

\* dumps that also list a bit or one triple component one past the declared
\* width, leave bits unlisted and give minterm strings of any length
AnyEntries(w) ==
    InRangeEntries(w)
    \cup ({w[1]} \X (Range(Pow2(w[1])) \X Range(Pow2(w[2])) \X Range(Pow2(w[3]))))
    \cup (Range(w[1]) \X ({Pow2(w[1])} \X Range(Pow2(w[2])) \X Range(Pow2(w[3]))))
    \cup (Range(w[1]) \X (Range(Pow2(w[1])) \X {Pow2(w[2])} \X Range(Pow2(w[3]))))
    \cup (Range(w[1]) \X (Range(Pow2(w[1])) \X Range(Pow2(w[2])) \X {Pow2(w[3])}))

BuildDumps(ws) ==
    UNION {
      {dump_of(w, trans_funcs_of(E, listed), acc, init) :
          E \in SubsetsUpTo(AnyEntries(w), MaxMinterms),
          listed \in {{}, {0}},
          acc \in {<<>>, <<<<>>, <<"1">>>>},
          init \in {<<>>, <<"0", "1", "1">>}} : w \in ws}

\* dumps of four and of sixteen states with at most one listed triple: in
\* all_states mode the latter have more SCCs than scc_colors has entries
WideWidths == {<<4, 0, 0>>, <<2, 0, 0>>, <<0, 0, 0>>}

WideDumps(ws) ==
    UNION {
      {dump_of(w, trans_funcs_of(E, Range(w[1])), acc, [k \in 1 .. w[1] |-> "0"]) :
          E \in SubsetsUpTo(InRangeEntries(w), 1),
          acc \in {<<>>, <<[k \in 1 .. w[1] |-> "1"]>>}} : w \in ws}

\* the orders in which compute_sccs may iterate over the states U
AllOrders(U) ==
    {p \in [1 .. Cardinality(U) -> U] : \A a, b \in 1 .. Cardinality(U) : p[a] = p[b] => a = b}

Reverse(q) == [k \in 1 .. Len(q) |-> q[Len(q) + 1 - k]]

Orders(U) ==
    IF Cardinality(U) <= MaxPermSize THEN AllOrders(U)
    ELSE {Sorted(U), Reverse(Sorted(U))}

\* the lines a text input is made of
KV(key, val) == [key |-> key, arg |-> <<>>, eq |-> TRUE, val |-> val]
TF(arg, val) == [key |-> "trans_func_", arg |-> arg, eq |-> TRUE, val |-> val]

TextLines ==
    {BEGIN_LINE, END_LINE,
     KV("num_state_bits", <<"1">>), KV("num_state_bits", <<"0">>),
     KV("num_inputs", <<"1">>), KV("num_outputs", <<"1">>),
     KV("initial_minterm", <<"1">>),
     KV("accepting_minterms", <<"1">>), KV("accepting_minterms", <<>>),
     TF(<<"0">>, <<"0", ",", "1", ",", "0", ";", "1", ",", "0">>),
     TF(<<"0">>, <<"0", ",", "x", ",", "0">>),
     TF(<<"0", "0">>, <<>>),
     [key |-> "Realizable", arg |-> <<>>, eq |-> FALSE, val |-> <<>>]}

TextInputs(n0) == UNION {[1 .. n -> TextLines] : n \in n0 .. MaxLines}

\* the JSON documents: every subset of the mandatory keys, with or without
\* trans_funcs
JsonWidths == [num_state_bits |-> 1, num_inputs |-> 1, num_outputs |-> 0]

JsonTransFuncs ==
    {<<[bit_str |-> <<"0">>, minterms |-> << <<0, 1, 0>>, <<1, 0>> >>]>>,
     <<[bit_str |-> <<"x">>, minterms |-> <<>>]>>}

JsonInputs ==
    {NoJson}
    \cup {[valid |-> TRUE, data |-> [k \in K |-> JsonWidths[k]]] : K \in SUBSET MandatoryKeys}
    \cup {[valid |-> TRUE,
           data |-> [k \in K \cup {"trans_funcs"} |->
                       IF k = "trans_funcs" THEN tf ELSE JsonWidths[k]]] :
            K \in SUBSET MandatoryKeys, tf \in JsonTransFuncs}

\* the calls of minimize_label: the (num_inputs, num_outputs) explored, the
\* label lists (empty, or one name per variable) and the pair lists that
\* build_explicit_dfa can attach to an edge: non-empty, without repetition,
\* in the order of the loops over inp and out
LabelWidths == {<<0, 0>>, <<1, 0>>, <<0, 1>>, <<1, 1>>, <<2, 1>>, <<1, 2>>}

InputNames == <<"a", "b">>
OutputNames == <<"x", "y">>

pairs_in_loop_order(num_inputs, num_outputs) ==
    [k \in 1 .. (Pow2(num_inputs) * Pow2(num_outputs)) |->
        <<(k - 1) \div Pow2(num_outputs), (k - 1) % Pow2(num_outputs)>>]

LabelCalls(ws) ==
    UNION {
      {[io_pairs |-> SelectSeq(pairs_in_loop_order(w[1], w[2]), LAMBDA pr : pr \in P),
        num_inputs |-> w[1], num_outputs |-> w[2],
        input_labels |-> il, output_labels |-> ol] :
          P \in (SUBSET SeqToSet(pairs_in_loop_order(w[1], w[2]))) \ {{}},
          il \in {<<>>, SubSeq(InputNames, 1, w[1])},
          ol \in {<<>>, SubSeq(OutputNames, 1, w[2])}} : w \in ws}

(***************************************************************************)
(* Initial states: main() has parsed its arguments and read nothing yet    *)
(* (InitParse), or the parser has returned a dump (InitBuild, Init).       *)
(***************************************************************************)
InitRest ==
    /\ all_states = FALSE
    /\ dot_only = FALSE
    /\ explicit_dfa = NoExplicit
    /\ reachable = {}
    /\ changed = FALSE
    /\ passes = 0
    /\ sccs = <<>>
    /\ is_weak = TRUE
    /\ problematic = <<>>
    /\ dot = NoDocument
    /\ stderr = <<>>
    /\ stdout = <<>>
    /\ image = FALSE
    /\ result = "running"

InitParse ==
    /\ HAS_SYMPY = FALSE
    /\ label_call = NoCall
    /\ label = NoLabel
    /\ pc = "read"
    /\ fmt \in {"text", "json"}
    /\ lines \in IF fmt = "text" THEN TextInputs(0) ELSE {<<>>}
    /\ jdoc \in IF fmt = "json" THEN JsonInputs ELSE {NoJson}
    /\ dfa = EmptyDfa
    /\ InitRest

InitBuild ==
    /\ HAS_SYMPY = FALSE
    /\ label_call = NoCall
    /\ label = NoLabel
    /\ pc = "check"
    /\ fmt = "text"
    /\ lines = <<>>
    /\ jdoc = NoJson
    /\ dfa \in BuildDumps(BuildWidths)
    /\ InitRest

Init ==
    /\ HAS_SYMPY = FALSE
    /\ label_call = NoCall
    /\ label = NoLabel
    /\ pc = "check"
    /\ fmt = "text"
    /\ lines = <<>>
    /\ jdoc = NoJson
    /\ dfa \in GraphDumps(Widths)
    /\ InitRest

InitWide ==
    /\ HAS_SYMPY = FALSE
    /\ label_call = NoCall
    /\ label = NoLabel
    /\ pc = "check"
    /\ fmt = "text"
    /\ lines = <<>>
    /\ jdoc = NoJson
    /\ dfa \in WideDumps(WideWidths)
    /\ InitRest

\* generate_graphviz is about to call minimize_label for one edge
InitLabel ==
    /\ HAS_SYMPY \in BOOLEAN
    /\ label_call \in LabelCalls(LabelWidths)
    /\ label = NoLabel
    /\ pc = "label"
    /\ fmt = "text"
    /\ lines = <<>>
    /\ jdoc = NoJson
    /\ dfa = EmptyDfa
    /\ InitRest

(***************************************************************************)
(* main(): reading the input.                                              *)
(***************************************************************************)
Raise(exc) ==
    /\ result' = "raised"
    /\ stderr' = Append(stderr, [msg |-> "Traceback", data |-> <<exc>>])
    /\ pc' = "done"

Return1(msgs) ==
    /\ result' = "return1"
    /\ stderr' = stderr \o msgs
    /\ pc' = "done"

ParseText ==
    /\ pc = "read"
    /\ fmt = "text"
    /\ LET r == parse_dfa_dump(lines)
       IN IF r.raised # ""
          THEN Raise(r.raised) /\ UNCHANGED dfa
          ELSE dfa' = r.dfa /\ pc' = "check" /\ UNCHANGED <<result, stderr>>
    /\ UNCHANGED <<HAS_SYMPY, label_vars>>
    /\ UNCHANGED <<fmt, lines, jdoc, all_states, dot_only, explicit_dfa, reachable,
                   changed, passes, sccs, is_weak, problematic, dot, stdout, image>>

\* from_stdin: the input was read from sys.stdin, where JSONDecodeError is caught
ParseJson ==
    /\ pc = "read"
    /\ fmt = "json"
    /\ \E from_stdin \in BOOLEAN :
         LET r == parse_json_dfa(jdoc)
         IN IF r.raised = "JSONDecodeError" /\ from_stdin
            THEN Return1(<<Say("Error: Invalid JSON input")>>) /\ UNCHANGED dfa
            ELSE IF r.raised # ""
            THEN Raise(r.raised) /\ UNCHANGED dfa
            ELSE dfa' = r.dfa /\ pc' = "check" /\ UNCHANGED <<result, stderr>>
    /\ UNCHANGED <<HAS_SYMPY, label_vars>>
    /\ UNCHANGED <<fmt, lines, jdoc, all_states, dot_only, explicit_dfa, reachable,
                   changed, passes, sccs, is_weak, problematic, dot, stdout, image>>

(***************************************************************************)
(* main(): the empty-dump check and build_explicit_dfa.                    *)
(***************************************************************************)
EmptyDump ==
    /\ pc = "check"
    /\ dfa.num_state_bits = 0
    /\ Return1(<<Say("Error: No DFA dump found in input"),
                 Say("Make sure the input contains ===PYDFA_BEGIN=== ... ===PYDFA_END=== or valid JSON")>>)
    /\ UNCHANGED <<HAS_SYMPY, label_vars>>
    /\ UNCHANGED <<fmt, lines, jdoc, all_states, dot_only, dfa, explicit_dfa, reachable,
                   changed, passes, sccs, is_weak, problematic, dot, stdout, image>>

\* 1 << n raises ValueError for a negative n
Build ==
    /\ pc = "check"
    /\ dfa.num_state_bits # 0
    /\ IF dfa.num_state_bits < 0 \/ dfa.num_inputs < 0 \/ dfa.num_outputs < 0
       THEN Raise("ValueError") /\ UNCHANGED explicit_dfa
       ELSE /\ explicit_dfa' = build_explicit_dfa(dfa)
            /\ stderr' = Append(stderr, Say("Parsed DFA:"))
            /\ pc' = "reach"
            /\ UNCHANGED result
    /\ UNCHANGED <<HAS_SYMPY, label_vars>>
    /\ UNCHANGED <<fmt, lines, jdoc, all_states, dot_only, dfa, reachable,
                   changed, passes, sccs, is_weak, problematic, dot, stdout, image>>

(***************************************************************************)
(* generate_graphviz.                                                      *)
(***************************************************************************)
\* args.all_states is set: reachable = set(range(num_states))
ReachAll ==
    /\ pc = "reach"
    /\ all_states' = TRUE
    /\ reachable' = Range(explicit_dfa.num_states)
    /\ pc' = "scc"
    /\ UNCHANGED <<HAS_SYMPY, label_vars>>
    /\ UNCHANGED <<fmt, lines, jdoc, dot_only, dfa, explicit_dfa, changed, passes, sccs,
                   is_weak, problematic, dot, stderr, stdout, image, result>>

\* args.all_states is not set: reachable = {initial_state}; changed = True
ReachInit ==
    /\ pc = "reach"
    /\ all_states' = FALSE
    /\ reachable' = {explicit_dfa.initial_state}
    /\ changed' = TRUE
    /\ pc' = "reach_loop"
    /\ UNCHANGED <<HAS_SYMPY, label_vars>>
    /\ UNCHANGED <<fmt, lines, jdoc, dot_only, dfa, explicit_dfa, passes, sccs,
                   is_weak, problematic, dot, stderr, stdout, image, result>>

\* an iteration that does not reset changed; followed for one pass more
\* than the automaton has states
ReachPass_changed_not_reset ==
    /\ pc = "reach_loop"
    /\ changed
    /\ passes <= explicit_dfa.num_states
    /\ reachable' = reach_pass(explicit_dfa, reachable).reachable
    /\ changed' = TRUE
    /\ passes' = passes + 1
    /\ UNCHANGED <<HAS_SYMPY, label_vars>>
    /\ UNCHANGED <<pc, fmt, lines, jdoc, all_states, dot_only, dfa, explicit_dfa, sccs,
                   is_weak, problematic, dot, stderr, stdout, image, result>>

\* one iteration of "while changed"
ReachPass ==
    /\ pc = "reach_loop"
    /\ changed
    /\ LET st == reach_pass(explicit_dfa, reachable)
       IN reachable' = st.reachable /\ changed' = st.changed
    /\ passes' = passes + 1
    /\ UNCHANGED <<HAS_SYMPY, label_vars>>
    /\ UNCHANGED <<pc, fmt, lines, jdoc, all_states, dot_only, dfa, explicit_dfa, sccs,
                   is_weak, problematic, dot, stderr, stdout, image, result>>

\* the loop condition is false
ReachDone ==
    /\ pc = "reach_loop"
    /\ ~changed
    /\ pc' = "scc"
    /\ UNCHANGED <<HAS_SYMPY, label_vars>>
    /\ UNCHANGED <<fmt, lines, jdoc, all_states, dot_only, dfa, explicit_dfa, reachable,
                   changed, passes, sccs, is_weak, problematic, dot, stderr, stdout,
                   image, result>>

\* compute_sccs followed at once by the node and edge statements
ComputeSccs_then_render ==
    /\ pc = "scc"
    /\ \E o \in Orders(reachable \cup Range(explicit_dfa.num_states)) :
         sccs' = compute_sccs(explicit_dfa, reachable, o)
    /\ pc' = "render"
    /\ UNCHANGED <<HAS_SYMPY, label_vars>>
    /\ UNCHANGED <<fmt, lines, jdoc, all_states, dot_only, dfa, explicit_dfa, reachable,
                   changed, passes, is_weak, problematic, dot, stderr, stdout, image,
                   result>>

ComputeSccs ==
    /\ pc = "scc"
    /\ \E o \in Orders(reachable \cup Range(explicit_dfa.num_states)) :
         sccs' = compute_sccs(explicit_dfa, reachable, o)
    /\ pc' = "weak"
    /\ UNCHANGED <<HAS_SYMPY, label_vars>>
    /\ UNCHANGED <<fmt, lines, jdoc, all_states, dot_only, dfa, explicit_dfa, reachable,
                   changed, passes, is_weak, problematic, dot, stderr, stdout, image,
                   result>>

\* check_weak_dfa that removes the trivial SCCs from the list it is given
CheckWeak_drops_trivial ==
    /\ pc = "weak"
    /\ LET r == check_weak_dfa(explicit_dfa, sccs)
       IN /\ is_weak' = r.is_weak
          /\ problematic' = r.problematic
          /\ stderr' = IF r.is_weak THEN stderr
                       ELSE stderr \o not_weak_report(r.problematic)
    /\ sccs' = SelectSeq(sccs, LAMBDA scc : Cardinality(scc) > 1)
    /\ pc' = "render"
    /\ UNCHANGED <<HAS_SYMPY, label_vars>>
    /\ UNCHANGED <<fmt, lines, jdoc, all_states, dot_only, dfa, explicit_dfa, reachable,
                   changed, passes, dot, stdout, image, result>>

\* check_weak_dfa and the report on stderr
CheckWeak ==
    /\ pc = "weak"
    /\ LET r == check_weak_dfa(explicit_dfa, sccs)
       IN /\ is_weak' = r.is_weak
          /\ problematic' = r.problematic
          /\ stderr' = IF r.is_weak THEN stderr
                       ELSE stderr \o not_weak_report(r.problematic)
    /\ pc' = "render"
    /\ UNCHANGED <<HAS_SYMPY, label_vars>>
    /\ UNCHANGED <<fmt, lines, jdoc, all_states, dot_only, dfa, explicit_dfa, reachable,
                   changed, passes, sccs, dot, stdout, image, result>>

\* the node and edge statements; generate_graphviz returns.  HAS_SYMPY is
\* read here for the first time (like args.all_states and args.dot_only,
\* its value is drawn where the run first depends on it)
Render ==
    /\ pc = "render"
    /\ \E has_sympy \in BOOLEAN :
         /\ HAS_SYMPY' = has_sympy
         /\ dot' = graph_document(explicit_dfa, reachable, sccs, has_sympy)
    /\ pc' = "output"
    /\ UNCHANGED label_vars
    /\ UNCHANGED <<fmt, lines, jdoc, all_states, dot_only, dfa, explicit_dfa, reachable,
                   changed, passes, sccs, is_weak, problematic, stderr, stdout, image,
                   result>>

(***************************************************************************)
(* main(): the output.                                                     *)
(***************************************************************************)
\* args.dot_only: print(dot); return 0
EmitDotOnly ==
    /\ pc = "output"
    /\ dot_only' = TRUE
    /\ stdout' = Append(stdout, dot)
    /\ result' = "return0"
    /\ pc' = "done"
    /\ UNCHANGED <<HAS_SYMPY, label_vars>>
    /\ UNCHANGED <<fmt, lines, jdoc, all_states, dfa, explicit_dfa, reachable, changed,
                   passes, sccs, is_weak, problematic, dot, stderr, image>>

\* subprocess.run(['dot', ...]) returns 0
RunDot ==
    /\ pc = "output"
    /\ dot_only' = FALSE
    /\ image' = TRUE
    /\ stderr' = Append(stderr, Say("Generated:"))
    /\ result' = "return0"
    /\ pc' = "done"
    /\ UNCHANGED <<HAS_SYMPY, label_vars>>
    /\ UNCHANGED <<fmt, lines, jdoc, all_states, dfa, explicit_dfa, reachable, changed,
                   passes, sccs, is_weak, problematic, dot, stdout>>

\* subprocess.run(['dot', ...]) returns a non-zero code
RunDotFails ==
    /\ pc = "output"
    /\ dot_only' = FALSE
    /\ Return1(<<Say("Error running dot:")>>)
    /\ UNCHANGED <<HAS_SYMPY, label_vars>>
    /\ UNCHANGED <<fmt, lines, jdoc, all_states, dfa, explicit_dfa, reachable, changed,
                   passes, sccs, is_weak, problematic, dot, stdout, image>>

\* subprocess.run raises FileNotFoundError
DotNotFound ==
    /\ pc = "output"
    /\ dot_only' = FALSE
    /\ stdout' = Append(stdout, dot)
    /\ result' = "return1"
    /\ stderr' = stderr \o <<Say("Error: 'dot' command not found. Install graphviz."),
                             Say("Falling back to DOT output:")>>
    /\ pc' = "done"
    /\ UNCHANGED <<HAS_SYMPY, label_vars>>
    /\ UNCHANGED <<fmt, lines, jdoc, all_states, dfa, explicit_dfa, reachable, changed,
                   passes, sccs, is_weak, problematic, dot, image>>

\* one call of minimize_label from the loop over trans_by_edge
MinimizeLabel ==
    /\ pc = "label"
    /\ label' = minimize_label(label_call.io_pairs, label_call.num_inputs,
                               label_call.num_outputs, label_call.input_labels,
                               label_call.output_labels, HAS_SYMPY)
    /\ pc' = "done"
    /\ UNCHANGED <<HAS_SYMPY, label_call>>
    /\ UNCHANGED <<fmt, lines, jdoc, all_states, dot_only, dfa, explicit_dfa, reachable,
                   changed, passes, sccs, is_weak, problematic, dot, stderr, stdout,
                   image, result>>

NextGraph ==
    \/ ReachAll \/ ReachInit \/ ReachPass \/ ReachDone
    \/ ComputeSccs \/ CheckWeak \/ Render
    \/ EmitDotOnly \/ RunDot \/ RunDotFails \/ DotNotFound

Next == EmptyDump \/ Build \/ NextGraph

NextParse == ParseText \/ ParseJson \/ Next

Spec == Init /\ [][Next]_vars

SpecBuild == InitBuild /\ [][Next]_vars

SpecParse == InitParse /\ [][NextParse]_vars

\* the loop is sequential code: an iteration that can run does run, and the
\* loop is left when its condition is false
SpecLoop == Init /\ [][Next]_vars /\ WF_vars(ReachPass) /\ WF_vars(ReachDone)

SpecWide == InitWide /\ [][Next]_vars

SpecLabel == InitLabel /\ [][MinimizeLabel]_vars

(***************************************************************************)
(* Properties.                                                             *)
(***************************************************************************)
EdgeKeys(e) == {e.trans_by_edge[k].key : k \in 1 .. Len(e.trans_by_edge)}

\* the states reachable from the states of S along edges of E (any number of steps)
RECURSIVE PathClosure(_, _)
PathClosure(S, E) ==
    LET T == S \cup {key[2] : key \in {x \in E : x[1] \in S}}
    IN IF T = S THEN S ELSE PathClosure(T, E)

\* the edges of E with both endpoints in S
EdgesWithin(E, S) == {key \in E : key[1] \in S /\ key[2] \in S}

Built == pc \in {"reach", "reach_loop", "scc", "weak", "render", "output"}
         \/ (pc = "done" /\ explicit_dfa # NoExplicit)

SccsComputed == pc \in {"weak", "render", "output"} \/ (pc = "done" /\ dot # NoDocument)

WeakChecked == pc \in {"render", "output"} \/ (pc = "done" /\ dot # NoDocument)

MixedScc(scc, accepting) ==
    Cardinality(scc) > 1 /\ scc \cap accepting # {} /\ scc \ accepting # {}

\* C1: once check_weak_dfa has returned, is_weak is false if and only if some
\* SCC of the list with more than one state holds an accepting and a
\* non-accepting state; a list of singleton SCCs is always weak.
C1_WeakIffNoMixedScc ==
    WeakChecked =>
        /\ (~is_weak) <=> \E k \in 1 .. Len(sccs) :
                              MixedScc(sccs[k], explicit_dfa.accepting_states)
        /\ (\A k \in 1 .. Len(sccs) : Cardinality(sccs[k]) <= 1) => is_weak

\* a mixed SCC of two states was found, next to a singleton SCC that has a
\* self-loop and the automaton has accepting states
C1_Witness ==
    /\ WeakChecked
    /\ ~is_weak
    /\ \E k \in 1 .. Len(sccs) : Cardinality(sccs[k]) = 2
    /\ \E k \in 1 .. Len(sccs) :
          \E s \in sccs[k] : sccs[k] = {s} /\ <<s, s>> \in EdgeKeys(explicit_dfa)

\* C2: the sets returned by compute_sccs are pairwise disjoint, their union is
\* the set passed as reachable, and inside each set every state reaches every
\* other along edges whose endpoints lie in the set.
C2_SccPartition ==
    SccsComputed =>
        /\ \A i, j \in 1 .. Len(sccs) : i # j => sccs[i] \cap sccs[j] = {}
        /\ UNION {sccs[k] : k \in 1 .. Len(sccs)} = reachable
        /\ \A k \in 1 .. Len(sccs) : \A a \in sccs[k] :
              sccs[k] \subseteq
                  PathClosure({a}, EdgesWithin(EdgeKeys(explicit_dfa), sccs[k]))

\* compute_sccs returned a component of three states and a singleton
C2_Witness ==
    /\ SccsComputed
    /\ \E k \in 1 .. Len(sccs) : Cardinality(sccs[k]) >= 3
    /\ \E k \in 1 .. Len(sccs) : Cardinality(sccs[k]) = 1

\* C3: in non-exhaustive mode, at every iteration of the fixpoint loop and
\* after it, each state of reachable is the initial state or has a predecessor
\* in reachable along a key of the edge map.
C3_ReachableHasPredecessor ==
    (Built /\ pc # "reach" /\ ~all_states) =>
        \A s \in reachable :
            \/ s = explicit_dfa.initial_state
            \/ \E p \in reachable : <<p, s>> \in EdgeKeys(explicit_dfa)

\* the loop is between two passes and has added two states so far
C3_Witness ==
    /\ pc = "reach_loop"
    /\ changed
    /\ passes >= 1
    /\ Cardinality(reachable) >= 3

\* C4: in non-exhaustive mode, when the fixpoint loop has ended, reachable is
\* exactly the set of states reachable from initial_state by a path of edges:
\* it holds initial_state and no edge leaves it.
C4_ReachableIsPathClosure ==
    (Built /\ pc \notin {"reach", "reach_loop"} /\ ~all_states) =>
        /\ reachable = PathClosure({explicit_dfa.initial_state}, EdgeKeys(explicit_dfa))
        /\ explicit_dfa.initial_state \in reachable
        /\ \A key \in EdgeKeys(explicit_dfa) : key[1] \in reachable => key[2] \in reachable

\* the loop needed three passes and left a state of the automaton out
C4_Witness ==
    /\ pc = "scc"
    /\ ~all_states
    /\ passes >= 3
    /\ reachable # Range(explicit_dfa.num_states)

\* C5: after build_explicit_dfa the transition table has an entry for every
\* (state, input, output) of the declared widths, and a state bit whose
\* minterm list is empty or missing is 0 in every next state.
C5_TransitionTotal ==
    Built =>
        /\ DOMAIN explicit_dfa.transitions =
              Range(Pow2(dfa.num_state_bits)) \X Range(Pow2(dfa.num_inputs))
                  \X Range(Pow2(dfa.num_outputs))
        /\ \A bit \in Range(dfa.num_state_bits) :
              (bit \notin DOMAIN dfa.trans_funcs \/ dfa.trans_funcs[bit] = <<>>) =>
                  \A t \in DOMAIN explicit_dfa.transitions :
                      BitOf(explicit_dfa.transitions[t], bit) = 0

\* an automaton was built from a dump that does not list bit 0 and has a
\* transition to state 2
C5_Witness ==
    /\ Built
    /\ dfa.num_state_bits = 2
    /\ 0 \notin DOMAIN dfa.trans_funcs
    /\ \E t \in DOMAIN explicit_dfa.transitions : explicit_dfa.transitions[t] = 2

\* some triple of the dump has a component outside its declared bit-width
OutOfRangeTriple(d) ==
    \E bit \in DOMAIN d.trans_funcs : \E k \in 1 .. Len(d.trans_funcs[bit]) :
        LET t == d.trans_funcs[bit][k]
        IN \/ t[1] \notin Range(Pow2(d.num_state_bits))
           \/ t[2] \notin Range(Pow2(d.num_inputs))
           \/ t[3] \notin Range(Pow2(d.num_outputs))

\* C7: when build_explicit_dfa is given a dump with a triple outside the
\* declared widths, the run fails and neither an explicit automaton nor a
\* graph document is produced.
C7_OutOfRangeTripleRejected ==
    (pc # "check" /\ dfa.num_state_bits # 0 /\ OutOfRangeTriple(dfa)) =>
        /\ pc = "done"
        /\ result = "raised"
        /\ explicit_dfa = NoExplicit
        /\ dot = NoDocument
        /\ stdout = <<>>

\* in_dump when the parser reaches line k
RECURSIVE in_dump_at(_, _)
in_dump_at(ls, k) ==
    IF k <= 1 THEN FALSE
    ELSE IF ls[k - 1] = BEGIN_LINE THEN TRUE
    ELSE IF ls[k - 1] = END_LINE THEN FALSE
    ELSE in_dump_at(ls, k - 1)

\* the keys given by a key=value line inside a block of the text input
TextKeys(ls) == {ls[k].key : k \in {j \in 1 .. Len(ls) : ls[j].eq /\ in_dump_at(ls, j)}}

InputKeys == IF fmt = "text" THEN TextKeys(lines) ELSE DOMAIN jdoc.data

InputDecodes == fmt = "text" \/ jdoc.valid

\* the parser has raised (or main has caught its JSONDecodeError)
ParseFailed ==
    /\ pc = "done"
    /\ explicit_dfa = NoExplicit
    /\ \/ result = "raised"
       \/ stderr = <<Say("Error: Invalid JSON input")>>

ParserReturned == pc # "read" /\ ~ParseFailed

\* C8: if num_state_bits, num_inputs or num_outputs is absent from the input,
\* parsing fails in both parsers; every other absent field is an empty
\* collection in the parsed dump.
C8_MissingWidthFailsParse ==
    (pc # "read" /\ InputDecodes) =>
        /\ ~(MandatoryKeys \subseteq InputKeys) => ParseFailed
        /\ ParserReturned =>
              /\ "state_var_indices" \notin InputKeys => dfa.state_var_indices = <<>>
              /\ "input_labels" \notin InputKeys => dfa.input_labels = <<>>
              /\ "output_labels" \notin InputKeys => dfa.output_labels = <<>>
              /\ "accepting_minterms" \notin InputKeys => dfa.accepting_minterms = <<>>
              /\ "initial_minterm" \notin InputKeys => dfa.initial_minterm = <<>>
              /\ ({"trans_func_", "trans_funcs"} \cap InputKeys = {}) => dfa.trans_funcs = <<>>

\* an entry of a trans_func value that is not three integers
MalformedEntry(entry) ==
    LET parts == Split(entry, ",")
    IN Len(parts) # 3 \/ \E k \in 1 .. Len(parts) : ~int_ok(parts[k])

TextHasMalformedEntry(ls) ==
    \E k \in 1 .. Len(ls) :
        /\ in_dump_at(ls, k)
        /\ ls[k].eq
        /\ ls[k].key = "trans_func_"
        /\ ls[k].val # <<>>
        /\ LET entries == Split(ls[k].val, ";")
           IN \E j \in 1 .. Len(entries) : MalformedEntry(entries[j])

\* C9: when a trans_func value of the text input holds an entry that is not a
\* well-formed integer triple, parsing fails and the run ends without a graph
\* document.
C9_MalformedEntryFailsParse ==
    (pc # "read" /\ fmt = "text" /\ TextHasMalformedEntry(lines)) =>
        /\ ParseFailed
        /\ dot = NoDocument
        /\ stdout = <<>>

\* what main does for num_state_bits == 0: the two messages, return 1, no document
NoAutomatonOutcome ==
    /\ result = "return1"
    /\ stderr = <<Say("Error: No DFA dump found in input"),
                  Say("Make sure the input contains ===PYDFA_BEGIN=== ... ===PYDFA_END=== or valid JSON")>>
    /\ stdout = <<>>
    /\ dot = NoDocument
    /\ ~image

\* a malformed dump: a mandatory field is missing while another is given, or
\* a trans_func entry is not an integer triple
MalformedInput ==
    /\ InputDecodes
    /\ \/ (MandatoryKeys \cap InputKeys # {} /\ ~(MandatoryKeys \subseteq InputKeys))
       \/ (fmt = "text" /\ TextHasMalformedEntry(lines))

\* C10: when the parsed dump has num_state_bits == 0, main reports that no
\* automaton is present, returns a failure status and writes no document, and
\* no run on a malformed dump ends with that same outcome.
C10_EmptyDumpDistinct ==
    pc = "done" =>
        /\ (ParserReturned /\ dfa.num_state_bits = 0) => NoAutomatonOutcome
        /\ MalformedInput => ~NoAutomatonOutcome

(***************************************************************************)
(* Edge labels.                                                            *)
(***************************************************************************)
Labelled == pc = "done" /\ label # NoLabel

\* the name of input (output) variable i of a call: the i-th given label,
\* or i<i> (o<i>) when no labels are given
input_name(c, i) ==
    IF c.input_labels = <<>> THEN "i" \o ToString(i) ELSE c.input_labels[i + 1]

output_name(c, i) ==
    IF c.output_labels = <<>> THEN "o" \o ToString(i) ELSE c.output_labels[i + 1]

\* the truth value that the vector (inp, out) gives to a literal: bit i of
\* inp for the i-th input variable, bit i of out for the i-th output variable
literal_holds(c, pair, l) ==
    \/ \E i \in Range(c.num_inputs) :
          l.name = input_name(c, i) /\ (BitOf(pair[1], i) = 1) = ~l.neg
    \/ \E i \in Range(c.num_outputs) :
          l.name = output_name(c, i) /\ (BitOf(pair[2], i) = 1) = ~l.neg

AllVectors(c) == Range(Pow2(c.num_inputs)) \X Range(Pow2(c.num_outputs))

\* the vectors that satisfy a sum of products
sop_vectors(c, terms) ==
    {v \in AllVectors(c) : \E term \in terms : \A l \in term : literal_holds(c, v, l)}

\* C11: when the label is produced by exact minimization (the literal true
\* or the sum of products), the vectors over the inputs then the outputs
\* that satisfy it are exactly the pairs of the edge.
C11_MinimizedGuardExact ==
    (Labelled /\ HAS_SYMPY /\ label.kind \in {"true", "sop"}) =>
        (IF label.kind = "true" THEN AllVectors(label_call)
         ELSE sop_vectors(label_call, label.terms))
        = SeqToSet(label_call.io_pairs)

\* a three-pair edge over two inputs and one output whose guard has merged
\* two minterms into a product of fewer than three literals
C11_Witness ==
    /\ Labelled /\ HAS_SYMPY /\ label.kind = "sop"
    /\ label_call.num_inputs = 2 /\ label_call.num_outputs = 1
    /\ Len(label_call.io_pairs) = 3
    /\ \E term \in label.terms : Cardinality(term) < 3
    /\ \E term \in label.terms : \E l \in term : l.name = output_name(label_call, 0)

\* C12: minimize_label returns the literal true whenever the pairs of the
\* edge are all the assignments of the inputs and outputs, with and without
\* sympy; without sympy it never returns true for an edge that carries
\* fewer pairs.
C12_TrueIffFullSpace ==
    Labelled =>
        /\ SeqToSet(label_call.io_pairs) = AllVectors(label_call) => label.kind = "true"
        /\ (~HAS_SYMPY /\ Len(label_call.io_pairs) < Cardinality(AllVectors(label_call)))
              => label.kind # "true"

\* all eight assignments of an edge over three variables, labelled without sympy
C12_Witness ==
    /\ Labelled /\ ~HAS_SYMPY
    /\ label_call.num_inputs + label_call.num_outputs = 3
    /\ Len(label_call.io_pairs) = 8
    /\ label.kind = "true"

\* the vectors that satisfy the conjunction printed by the fallback
term_vectors(c, parts) ==
    {v \in AllVectors(c) : \A k \in 1 .. Len(parts) : literal_holds(c, v, parts[k])}

DocumentBuilt == pc = "output" \/ (pc = "done" /\ dot # NoDocument)

\* the states to draw: those reachable from the initial state, or every
\* state of the declared width in all_states mode
RenderedSet ==
    IF all_states THEN Range(Pow2(explicit_dfa.num_state_bits))
    ELSE PathClosure({explicit_dfa.initial_state}, EdgeKeys(explicit_dfa))

NodesOf(s) == {k \in 1 .. Len(dot.nodes) : dot.nodes[k].id = s}

\* C14: the graph document has exactly one node for every state of the
\* rendered set and no node for any other state; the rendered set is the
\* reachable set, or the full range of states in all_states mode, where the
\* reachability loop is not run.
C14_OneNodePerRenderedState ==
    DocumentBuilt =>
        /\ \A s \in RenderedSet : Cardinality(NodesOf(s)) = 1
        /\ \A k \in 1 .. Len(dot.nodes) : dot.nodes[k].id \in RenderedSet
        /\ all_states => passes = 0

NodeIds == {dot.nodes[k].id : k \in 1 .. Len(dot.nodes)}

EdgesOf(key) ==
    {k \in 1 .. Len(dot.edges) : dot.edges[k].src = key[1] /\ dot.edges[k].dst = key[2]}

\* C15: besides the edge from the start marker, the graph document has
\* exactly one edge for every (state, next_state) key of trans_by_edge whose
\* source is a node of the document, no other edge, and both ends of every
\* edge are nodes of the document.
C15_OneEdgePerKey ==
    DocumentBuilt =>
        /\ \A key \in EdgeKeys(explicit_dfa) :
              key[1] \in NodeIds => Cardinality(EdgesOf(key)) = 1
        /\ \A k \in 1 .. Len(dot.edges) :
              /\ <<dot.edges[k].src, dot.edges[k].dst>> \in EdgeKeys(explicit_dfa)
              /\ dot.edges[k].src \in NodeIds
              /\ dot.edges[k].dst \in NodeIds

\* default mode: three edges are drawn and a key of trans_by_edge that
\* leaves an unreachable state into a drawn one is left out
C15_Witness ==
    /\ DocumentBuilt /\ ~all_states
    /\ Len(dot.edges) >= 3
    /\ \E key \in EdgeKeys(explicit_dfa) : key[1] \notin NodeIds /\ key[2] \in NodeIds

SccIndexOf(s) == {i \in 1 .. Len(sccs) : s \in sccs[i]}

SameScc(a, b) == SccIndexOf(a) \cap SccIndexOf(b) # {}

\* C16: every node of the document is filled with an entry of scc_colors,
\* never with white; nodes of one SCC have the same fill; while the SCC list
\* is no longer than the palette, nodes of different SCCs have different
\* fills; the fill of an SCC is the palette entry at its index in the list,
\* counted cyclically.
C16_FillBySccIndex ==
    DocumentBuilt =>
        \A a \in 1 .. Len(dot.nodes) :
            /\ dot.nodes[a].fillcolor \in SeqToSet(scc_colors)
            /\ dot.nodes[a].fillcolor # "white"
            /\ \A i \in SccIndexOf(dot.nodes[a].id) :
                  dot.nodes[a].fillcolor = scc_colors[((i - 1) % 10) + 1]
            /\ \A b \in 1 .. Len(dot.nodes) :
                  /\ SameScc(dot.nodes[a].id, dot.nodes[b].id)
                        => dot.nodes[a].fillcolor = dot.nodes[b].fillcolor
                  /\ (Len(sccs) <= 10 /\ ~SameScc(dot.nodes[a].id, dot.nodes[b].id))
                        => dot.nodes[a].fillcolor # dot.nodes[b].fillcolor

\* sixteen drawn states in more than ten SCCs, one of them with two states:
\* the eleventh SCC has the fill of the first
C16_Witness ==
    /\ DocumentBuilt
    /\ Len(dot.nodes) = 16
    /\ Len(sccs) > 10
    /\ \E i \in 1 .. Len(sccs) : Cardinality(sccs[i]) = 2
    /\ \E a, b \in 1 .. Len(dot.nodes) :
          /\ ~SameScc(dot.nodes[a].id, dot.nodes[b].id)
          /\ dot.nodes[a].fillcolor = dot.nodes[b].fillcolor

\* C17: the initial state of the built automaton is below 2^num_state_bits,
\* whatever the length of initial_minterm, and the edge from the start marker
\* of the document points at one of its nodes.
C17_InitialStateInRange ==
    /\ Built => explicit_dfa.initial_state \in Range(Pow2(explicit_dfa.num_state_bits))
    /\ DocumentBuilt => dot.start \in NodeIds

(***************************************************************************)
(* Diagnostics and output.                                                 *)
(***************************************************************************)
\* the line that test_obligation_simplification.py looks for in stderr
\* ('WARNING: DFA IS NOT WEAK' in result.stderr)
HasMarker(msg) == msg = "WARNING: DFA IS NOT WEAK!"

MarkerOnStderr == \E k \in 1 .. Len(stderr) : HasMarker(stderr[k].msg)

\* the strings a graph document is made of
DocStrings(d) ==
    {d.nodes[k].shape : k \in 1 .. Len(d.nodes)}
    \cup {d.nodes[k].color : k \in 1 .. Len(d.nodes)}
    \cup {d.nodes[k].fillcolor : k \in 1 .. Len(d.nodes)}
    \cup {d.edges[k].label.kind : k \in 1 .. Len(d.edges)}
    \cup UNION {IF d.edges[k].label.kind = "term"
                THEN {d.edges[k].label.parts[j].name :
                         j \in 1 .. Len(d.edges[k].label.parts)}
                ELSE IF d.edges[k].label.kind = "sop"
                THEN {l.name : l \in UNION d.edges[k].label.terms}
                ELSE {} : k \in 1 .. Len(d.edges)}

\* C18: the not-weak warning is on the diagnostic stream if and only if
\* check_weak_dfa has returned is_weak = false, and it is never part of the
\* graph document or of what is written to the primary output.
C18_MarkerIffNotWeak ==
    /\ MarkerOnStderr <=> (WeakChecked /\ ~is_weak)
    /\ \A s \in DocStrings(dot) : ~HasMarker(s)
    /\ \A k \in 1 .. Len(stdout) : \A s \in DocStrings(stdout[k]) : ~HasMarker(s)

\* a run that produced the image of an automaton that is not weak: the
\* warning is on stderr
C18_Witness ==
    /\ pc = "done" /\ image
    /\ ~is_weak
    /\ MarkerOnStderr
    /\ Len(dot.edges) >= 2

DocumentEmitted == \E k \in 1 .. Len(stdout) : stdout[k] = dot

\* C19: a run that has built the graph document ends with the image or with
\* the document on the primary output; when the layout tool produces no
\* image, the document is written.
C19_DocumentNeverDropped ==
    (pc = "done" /\ dot # NoDocument) =>
        /\ image \/ DocumentEmitted
        /\ ~image => DocumentEmitted

\* the "Mixed SCC" lines of the report, in the order written
MixedSccLines == SelectSeq(stderr, LAMBDA m : m.msg = "Mixed SCC")

IsAscending(q) == \A i, j \in 1 .. Len(q) : i < j => q[i] < q[j]

\* C20: every recorded violation is one SCC of the list with more than one
\* state, with accepting = SCC \cap accepting_states and rejecting = SCC minus
\* accepting_states, both non-empty, disjoint and together the SCC; no SCC is
\* recorded twice; the report lists the SCC and the two subsets in
\* ascending order.
C20_ViolationRecords ==
    WeakChecked =>
        /\ \A k \in 1 .. Len(problematic) :
              LET p == problematic[k]
              IN /\ p.scc \in SeqToSet(sccs)
                 /\ Cardinality(p.scc) > 1
                 /\ p.accepting = p.scc \cap explicit_dfa.accepting_states
                 /\ p.rejecting = p.scc \ explicit_dfa.accepting_states
                 /\ p.accepting # {} /\ p.rejecting # {}
                 /\ p.accepting \cap p.rejecting = {}
                 /\ p.accepting \cup p.rejecting = p.scc
                 /\ \A j \in 1 .. Len(problematic) : problematic[j].scc = p.scc => j = k
        /\ Len(MixedSccLines) = Len(problematic)
        /\ \A k \in 1 .. Len(MixedSccLines) :
              LET d == MixedSccLines[k].data
                  p == problematic[k]
              IN /\ IsAscending(d[1]) /\ SeqToSet(d[1]) = p.scc
                 /\ IsAscending(d[2]) /\ SeqToSet(d[2]) = p.accepting
                 /\ IsAscending(d[3]) /\ SeqToSet(d[3]) = p.rejecting

\* four states, the cycle through 1 and 2 with state 1 accepting and state 2
\* not: one violation, accepting {1}, rejecting {2}
C20_Witness ==
    /\ WeakChecked
    /\ explicit_dfa.num_state_bits = 2
    /\ explicit_dfa.accepting_states = {1}
    /\ problematic = <<[scc |-> {1, 2}, accepting |-> {1}, rejecting |-> {2}]>>
    /\ MixedSccLines = <<[msg |-> "Mixed SCC", data |-> <<<<1, 2>>, <<1>>, <<2>>>>]>>
    /\ ~is_weak

(***************************************************************************)
(* The pipeline on given dumps.                                            *)
(***************************************************************************)
\* one state bit, one input, no output, trans_func_0 empty,
\* initial_minterm "0", accepting_minterms ["0"]
ScenarioA ==
    dump_of(<<1, 1, 0>>, [bit \in {0} |-> <<>>], <<<<"0">>>>, <<"0">>)

\* C21: on that dump the pipeline (default mode) gives the reachable set
\* {0}, the single edge 0 -> 0 that carries both input values, exactly one
\* SCC {0}, is_weak = true, and the guard true on the edge.
C21_ScenarioA ==
    (dfa = ScenarioA /\ DocumentBuilt /\ ~all_states) =>
        /\ reachable = {0}
        /\ \E k \in 1 .. Len(explicit_dfa.trans_by_edge) :
              /\ explicit_dfa.trans_by_edge[k].key = <<0, 0>>
              /\ explicit_dfa.trans_by_edge[k].pairs = <<<<0, 0>>, <<1, 0>>>>
        /\ dot.edges = <<[src |-> 0, dst |-> 0, label |-> [kind |-> "true"]]>>
        /\ NodeIds = {0}
        /\ sccs = <<{0}>>
        /\ is_weak
        /\ ~MarkerOnStderr

C21_Witness ==
    /\ dfa = ScenarioA
    /\ pc = "done" /\ result = "return0"
    /\ ~all_states
    /\ dot.edges = <<[src |-> 0, dst |-> 0, label |-> [kind |-> "true"]]>>

\* the states reachable from the initial state along the edges of e
FromInitial(e) == PathClosure({e.initial_state}, EdgeKeys(e))

\* C22: in either mode every state of an SCC handed to the weakness check
\* is reachable from initial_state, and the automaton is reported not weak
\* only for a mixed SCC of states reachable from the initial state.
C22_SccStatesReachable ==
    /\ SccsComputed =>
          \A k \in 1 .. Len(sccs) : sccs[k] \subseteq FromInitial(explicit_dfa)
    /\ (WeakChecked /\ ~is_weak) =>
          \E k \in 1 .. Len(sccs) :
             /\ sccs[k] \subseteq FromInitial(explicit_dfa)
             /\ MixedScc(sccs[k], explicit_dfa.accepting_states)

(***************************************************************************)
(* Order of the fields of a text block.                                    *)
(***************************************************************************)
\* the input is one block: the begin sentinel, lines, and at most a closing
\* end sentinel
SingleBlock(ls) ==
    /\ Len(ls) >= 1
    /\ ls[1] = BEGIN_LINE
    /\ \A k \in 2 .. Len(ls) : /\ ls[k] # BEGIN_LINE
                               /\ ls[k] = END_LINE => k = Len(ls)

\* the positions of the key=value lines of the input
FieldPositions(ls) == {k \in 1 .. Len(ls) : ls[k].eq}

\* the input with its key=value lines rearranged by p, every other line in place
permute_fields(ls, p) ==
    [k \in 1 .. Len(ls) |->
        IF k \in FieldPositions(ls)
        THEN ls[p[Cardinality({j \in FieldPositions(ls) : j <= k})]]
        ELSE ls[k]]

\* the outcome of the run's parse is the outcome of parse_dfa_dump on every
\* rearrangement of the key=value lines
SameParseInEveryOrder ==
    \A p \in AllOrders(FieldPositions(lines)) :
        LET r == parse_dfa_dump(permute_fields(lines, p))
        IN IF ParseFailed THEN r.raised # ""
           ELSE r.raised = "" /\ r.dfa = dfa

\* no two key=value lines with the same text left of '='
KeysOccurOnce(ls) ==
    \A j, k \in FieldPositions(ls) :
        (ls[j].key = ls[k].key /\ ls[j].arg = ls[k].arg) => j = k

\* no two trans_func lines whose keys give the same bit under int()
BitsOccurOnce(ls) ==
    \A j, k \in FieldPositions(ls) :
        (/\ ls[j].key = "trans_func_" /\ ls[k].key = "trans_func_"
         /\ int_ok(ls[j].arg) /\ int_ok(ls[k].arg)
         /\ int_of(ls[j].arg) = int_of(ls[k].arg)) => j = k

\* C23 (as stated): for a text block in which each key occurs at most once,
\* parse_dfa_dump gives the same result for every permutation of the
\* key=value lines inside the block.
C23_OrderIrrelevantForDistinctKeys ==
    (pc # "read" /\ fmt = "text" /\ SingleBlock(lines) /\ KeysOccurOnce(lines)) =>
        SameParseInEveryOrder

\* C23 (amended): for a text block in which each key occurs at most once
\* and no two trans_func keys denote the same bit index, parse_dfa_dump
\* gives the same result for every permutation of the key=value lines.
C23_OrderIrrelevantForDistinctFields ==
    (/\ pc # "read" /\ fmt = "text" /\ SingleBlock(lines)
     /\ KeysOccurOnce(lines) /\ BitsOccurOnce(lines)) =>
        SameParseInEveryOrder

\* a returned parse of a block of three distinct fields, a trans_func among them
C23_Witness ==
    /\ pc = "check" /\ fmt = "text"
    /\ SingleBlock(lines) /\ KeysOccurOnce(lines) /\ BitsOccurOnce(lines)
    /\ Cardinality(FieldPositions(lines)) = 3
    /\ dfa.trans_funcs # <<>>
    /\ dfa.num_state_bits = 1

(***************************************************************************)
(* The explicit automaton against the dump it was built from.              *)
(***************************************************************************)
\* the dump without the minterm lists of bits at or above num_state_bits
within_width(d) ==
    [d EXCEPT !.trans_funcs =
        [bit \in DOMAIN d.trans_funcs \cap Range(d.num_state_bits) |->
            d.trans_funcs[bit]]]

\* C24: for every (s, i, o) in range the recorded next state has bit b set
\* exactly for the state bits b < num_state_bits whose minterm list holds
\* (s, i, o); so every next state is below 2^num_state_bits and the lists
\* of bits >= num_state_bits have no effect on the automaton.
C24_NextStateFromBits ==
    Built =>
        /\ \A t \in DOMAIN explicit_dfa.transitions :
              /\ \A bit \in Range(dfa.num_state_bits) :
                    BitOf(explicit_dfa.transitions[t], bit) = 1
                        <=> /\ bit \in DOMAIN dfa.trans_funcs
                            /\ \E k \in 1 .. Len(dfa.trans_funcs[bit]) :
                                  dfa.trans_funcs[bit][k] = t
              /\ explicit_dfa.transitions[t] \in Range(Pow2(dfa.num_state_bits))
        /\ explicit_dfa = build_explicit_dfa(within_width(dfa))

\* an automaton built from a dump that lists triples for a bit at or above
\* num_state_bits, with a transition to a state other than 0
C24_Witness ==
    /\ Built
    /\ \E bit \in DOMAIN dfa.trans_funcs :
          bit >= dfa.num_state_bits /\ dfa.trans_funcs[bit] # <<>>
    /\ \E t \in DOMAIN explicit_dfa.transitions : explicit_dfa.transitions[t] # 0

\* how many times pair is listed in pairs
occurrences(pairs, pair) == Cardinality({j \in 1 .. Len(pairs) : pairs[j] = pair})

\* C25: after build_explicit_dfa a pair (i, o) is listed under the key
\* (s, t) if and only if transitions[(s, i, o)] = t, and then exactly once;
\* for each state the pair lists of its outgoing keys partition the
\* input x output space, and no key has an empty pair list.
C25_EdgeMapMatchesTransitions ==
    Built =>
        LET e   == explicit_dfa
            IO  == Range(Pow2(e.num_inputs)) \X Range(Pow2(e.num_outputs))
            idx == 1 .. Len(e.trans_by_edge)
        IN /\ \A j, k \in idx :
                 e.trans_by_edge[j].key = e.trans_by_edge[k].key => j = k
           /\ \A k \in idx :
                 /\ e.trans_by_edge[k].pairs # <<>>
                 /\ e.trans_by_edge[k].key[1] \in Range(e.num_states)
                 /\ \A q \in 1 .. Len(e.trans_by_edge[k].pairs) :
                       e.trans_by_edge[k].pairs[q] \in IO
                 /\ \A io \in IO :
                       occurrences(e.trans_by_edge[k].pairs, io) =
                          IF e.transitions[<<e.trans_by_edge[k].key[1], io[1], io[2]>>]
                                = e.trans_by_edge[k].key[2]
                          THEN 1 ELSE 0
           /\ \A s \in Range(e.num_states) : \A io \in IO :
                 Cardinality({k \in idx :
                                 /\ e.trans_by_edge[k].key[1] = s
                                 /\ occurrences(e.trans_by_edge[k].pairs, io) > 0}) = 1

\* a state with two outgoing keys, one of them carrying two pairs
C25_Witness ==
    /\ Built
    /\ \E j, k \in 1 .. Len(explicit_dfa.trans_by_edge) :
          /\ j # k
          /\ explicit_dfa.trans_by_edge[j].key[1] = explicit_dfa.trans_by_edge[k].key[1]
          /\ Len(explicit_dfa.trans_by_edge[j].pairs) >= 1
          /\ Len(explicit_dfa.trans_by_edge[k].pairs) >= 1
    /\ \E k \in 1 .. Len(explicit_dfa.trans_by_edge) :
          Len(explicit_dfa.trans_by_edge[k].pairs) = 2

(***************************************************************************)
(* compute_sccs against mutual reachability.                               *)
(***************************************************************************)
\* the states of R that reach a and are reached from a along edges of e
\* between states of R
mutual_class(e, R, a) ==
    LET E == EdgesWithin(EdgeKeys(e), R)
    IN {b \in R : b \in PathClosure({a}, E) /\ a \in PathClosure({b}, E)}

\* the list holds each mutual-reachability class of R once and nothing else
IsSccDecomposition(e, R, sccList) ==
    /\ {sccList[k] : k \in 1 .. Len(sccList)} = {mutual_class(e, R, a) : a \in R}
    /\ \A j, k \in 1 .. Len(sccList) : sccList[j] = sccList[k] => j = k

\* C26: two states of reachable are in the same set returned by
\* compute_sccs if and only if each reaches the other along edges between
\* states of reachable: the sets are the mutual-reachability classes of the
\* restricted graph, in the run and for every iteration order of the sets.
C26_SccsAreMutualReachabilityClasses ==
    /\ SccsComputed =>
          /\ IsSccDecomposition(explicit_dfa, reachable, sccs)
          /\ \A a, b \in reachable :
                SameScc(a, b) <=> b \in mutual_class(explicit_dfa, reachable, a)
    /\ pc = "weak" =>
          \A o \in AllOrders(reachable \cup Range(explicit_dfa.num_states)) :
              IsSccDecomposition(explicit_dfa, reachable,
                                 compute_sccs(explicit_dfa, reachable, o))

\* compute_sccs returned a class of two states next to two singletons, one
\* of which reaches the class
C26_Witness ==
    /\ pc = "weak"
    /\ Len(sccs) = 3
    /\ \E k \in 1 .. Len(sccs) : Cardinality(sccs[k]) = 2
    /\ \E j, k \in 1 .. Len(sccs) :
          /\ Cardinality(sccs[j]) = 1 /\ Cardinality(sccs[k]) = 2
          /\ \E a \in sccs[j], b \in sccs[k] : <<a, b>> \in EdgeKeys(explicit_dfa)

(***************************************************************************)
(* The stages of main.                                                     *)
(***************************************************************************)
\* the steps from one position of main to the next: parse ("read"), the
\* empty-dump check and build ("check"), reachability ("reach",
\* "reach_loop"), compute_sccs ("scc"), check_weak_dfa ("weak"), the node
\* and edge statements ("render"), the output; "done" has no successor
StageOrder ==
    {<<"read", "check">>, <<"read", "done">>,
     <<"check", "reach">>, <<"check", "done">>,
     <<"reach", "reach_loop">>, <<"reach", "scc">>,
     <<"reach_loop", "scc">>,
     <<"scc", "weak">>,
     <<"weak", "render">>,
     <<"render", "output">>,
     <<"output", "done">>}

\* one step of a run keeps to the order of the stages: each result is
\* written in its own stage only
StageStep ==
    /\ pc' # pc => <<pc, pc'>> \in StageOrder
    /\ dfa' # dfa => pc = "read"
    /\ explicit_dfa' # explicit_dfa => pc = "check"
    /\ reachable' # reachable => pc \in {"reach", "reach_loop"}
    /\ sccs' # sccs => pc = "scc"
    /\ (is_weak' # is_weak \/ problematic' # problematic) => pc = "weak"
    /\ dot' # dot => pc = "render"
    /\ (stdout' # stdout \/ image' # image) => pc = "output"
    /\ pc' \in {"output", "done"} /\ (stdout' # <<>> \/ image') =>
          \E k \in 1 .. Len(stderr') : stderr'[k] = Say("Parsed DFA:")
    /\ (pc \in {"read", "check"} /\ pc' = "done") =>
          /\ result' \in {"raised", "return1"}
          /\ explicit_dfa' = NoExplicit
          /\ reachable' = {} /\ sccs' = <<>> /\ problematic' = <<>>
          /\ dot' = NoDocument /\ stdout' = <<>> /\ ~image'
    /\ (pc = "check" /\ dfa.num_state_bits = 0) => pc' = "done"

C28_ReachLoopTerminates ==
    /\ [](Built => passes <= explicit_dfa.num_states)
    /\ [][/\ pc = "reach_loop" => reachable \subseteq reachable'
          /\ (passes' # passes /\ changed') =>
                 reachable' # reachable /\ reachable \subseteq reachable'
          /\ (passes' # passes /\ ~changed') => reachable' = reachable]_vars
    /\ (pc = "reach_loop") ~> (pc = "scc" /\ ~changed)

\* the loop has ended after as many passes as the automaton has states
C28_Witness ==
    /\ pc = "scc"
    /\ ~all_states
    /\ explicit_dfa.num_states = 4
    /\ passes = explicit_dfa.num_states
    /\ reachable = Range(explicit_dfa.num_states)

(***************************************************************************)
(* The explicit automaton after build_explicit_dfa.                        *)
(***************************************************************************)
\* C29: once build_explicit_dfa has returned, no later step (reachability,
\* compute_sccs, check_weak_dfa, the node and edge statements with their
\* minimize_label calls, the output) changes the transition table, the edge
\* map with its keys and pair lists, the accepting set or the initial
\* state, and check_weak_dfa leaves the SCC list it is given unchanged.
C29_ExplicitAutomatonFrozen ==
    [][/\ Built =>
            /\ explicit_dfa'.transitions = explicit_dfa.transitions
            /\ explicit_dfa'.trans_by_edge = explicit_dfa.trans_by_edge
            /\ explicit_dfa'.accepting_states = explicit_dfa.accepting_states
            /\ explicit_dfa'.initial_state = explicit_dfa.initial_state
            /\ explicit_dfa' = explicit_dfa
       /\ pc = "weak" => sccs' = sccs
       /\ SccsComputed => sccs' = sccs]_vars

\* a run through every stage, with a mixed SCC reported and a guard other
\* than true, ends with the automaton that build_explicit_dfa returned
C29_Witness ==
    /\ pc = "done" /\ DocumentBuilt
    /\ ~is_weak
    /\ \E k \in 1 .. Len(sccs) : Cardinality(sccs[k]) = 1
    /\ \E k \in 1 .. Len(dot.edges) : dot.edges[k].label.kind # "true"
    /\ explicit_dfa = build_explicit_dfa(dfa)

(***************************************************************************)
(* Blocks and repeated keys of the text format.                            *)
(***************************************************************************)
\* the entry of the dict a key=value line writes: the key, and for a
\* trans_func line the bit
field_of(line) ==
    IF line.key = "trans_func_"
    THEN <<line.key, int_of(Split(line.arg, "_")[1])>>
    ELSE <<line.key, 0>>

\* the lines of ls at the positions of K, in their order
select_lines(ls, K) ==
    LET keep == SelectSeq([k \in 1 .. Len(ls) |-> k], LAMBDA k : k \in K)
    IN [j \in 1 .. Len(keep) |-> ls[keep[j]]]

\* C30: a key=value line changes the result of the text parser only if it
\* lies after a BEGIN sentinel and before the following END sentinel; and
\* over several blocks and repeated keys the fields accumulate, the last
\* occurrence of each key winning: the result is that of one block holding
\* the last in-block line of each key.
C30_BlocksAndLastOccurrence ==
    (ParserReturned /\ fmt = "text") =>
        LET Fields  == {k \in 1 .. Len(lines) : lines[k].eq}
            InBlock == {k \in Fields : in_dump_at(lines, k)}
            Last    == {k \in InBlock :
                          \A j \in InBlock :
                              j > k => field_of(lines[j]) # field_of(lines[k])}
        IN /\ dfa = parse_dfa_dump(
                        select_lines(lines, (1 .. Len(lines)) \ (Fields \ InBlock))).dfa
           /\ dfa = parse_dfa_dump(<<BEGIN_LINE>> \o select_lines(lines, Last)).dfa

====
